---- MODULE Spec2Model ----
(***************************************************************************)
(* Model of backend/indicators.py, the indicator functions and the layered *)
(* long/short signal classifier detect_signal_layer, of the response      *)
(* cache of backend/cache_manager.py, and of the endpoints GET             *)
(* /api/heatmap and POST /api/settings/apikey of backend/main.py.          *)
(*                                                                         *)
(* Numbers are integers.  Prices and EMAs share one unit (a price of 1000  *)
(* stands for 100.0), RSI values are whole points of the 0..100 scale.     *)
(* numpy's nan is the value NaN; every ordered comparison with it is       *)
(* false, as in Python.  Python's None is the string "None".               *)
(***************************************************************************)
EXTENDS Integers, Sequences, FiniteSets, TLC

VARIABLES
    prices,        \* detect_signal_layer argument: closing prices, oldest first
    ema_13,        \* detect_signal_layer argument
    ema_21,        \* detect_signal_layer argument
    rsi_14,        \* detect_signal_layer argument
    smoothed_rsi,  \* detect_signal_layer argument
    result,        \* the dict detect_signal_layer builds and returns
    first,         \* the result of the previous call on the unchanged series
    changed,       \* which series and which position was changed between calls
    period,        \* calculate_rsi argument
    rsi_out,       \* the list calculate_rsi returns
    ema_out,       \* the list calculate_ema returns
    rsi_period,    \* calculate_smoothed_rsi argument
    smooth_period, \* calculate_smoothed_rsi argument
    smoothed_out,  \* the list calculate_smoothed_rsi returns
    in_series,     \* find_peaks_troughs argument
    in_order,      \* find_peaks_troughs argument
    pivots_out,    \* the pair of lists find_peaks_troughs returns
    in_rsi_values, \* detect_divergence argument
    in_lookback,   \* detect_divergence argument
    divergence,    \* the dict detect_divergence returns
    store,         \* the rows of the table api_cache
    now,           \* time.time()
    written,       \* per (limit, timeframe): the last set_cache call made
    got,           \* the last get_cache call and the value it returned
    sets,          \* number of set_cache calls made
    table_exists,  \* whether init_db created the table api_cache
    requests,      \* per client: its GET /api/heatmap request and how far it is
    served,        \* per (limit, timeframe): the last payload answered with 200
    started,       \* number of requests started
    key_file,      \* text of the file .api_key, "" when there is none
    env_key,       \* environment variable GEMINI_API_KEY, "" when unset
    gemini_service,\* the global gemini_service of main.py
    posted,        \* the last POST /api/settings/apikey and its answer
    posts,         \* number of POST /api/settings/apikey requests handled
    pc             \* position of the caller

indicator_vars == <<ema_out, rsi_period, smooth_period, smoothed_out>>
pivot_vars == <<in_series, in_order, pivots_out, in_rsi_values, in_lookback,
                divergence>>
cache_vars == <<store, now, written, got, sets, table_exists>>
settings_vars == <<key_file, env_key, gemini_service, posted, posts>>
service_vars == <<requests, served, started, settings_vars>>

vars == <<prices, ema_13, ema_21, rsi_14, smoothed_rsi, result, first, changed,
          period, rsi_out, indicator_vars, pivot_vars, cache_vars, service_vars, pc>>

-----------------------------------------------------------------------------
(* Values *)

NaN == -999999

IsNaN(x) == x = NaN

\* Python float comparisons: false as soon as one side is nan
Lt(a, b) == ~IsNaN(a) /\ ~IsNaN(b) /\ a < b
Gt(a, b) == ~IsNaN(a) /\ ~IsNaN(b) /\ a > b
Le(a, b) == ~IsNaN(a) /\ ~IsNaN(b) /\ a <= b
Ge(a, b) == ~IsNaN(a) /\ ~IsNaN(b) /\ a >= b

Abs(x) == IF x < 0 THEN -x ELSE x

\* Python indexing, 0-based, and the negative indices the code uses
At(s, i) == s[i + 1]
Last(s) == s[Len(s)]

\* the previous bar taken one bar too far back
Prev_third(s) == s[Len(s) - 2]

Prev(s) == s[Len(s) - 1]

\* s[-k:]
Window(s, k) == IF Len(s) <= k THEN s ELSE SubSeq(s, Len(s) - k + 1, Len(s))

\* range(a, b) as an ascending sequence
Range(a, b) == IF b <= a THEN << >> ELSE [k \in 1..(b - a) |-> a + k - 1]

Min(S) == CHOOSE x \in S : \A y \in S : x <= y

-----------------------------------------------------------------------------
(* Program constants *)

MIN_LEN == 30
DIV_LOOKBACK == 30
EMA_LOOKBACK == 10
PIVOT_ORDER == 2
RECENT_PIVOT == 5
RETEST_MARGIN_INV == 200
RSI_OVERSOLD == 30
RSI_OVERBOUGHT == 70

-----------------------------------------------------------------------------
(* find_peaks_troughs *)

is_peak(series, i, order) ==
    /\ ~IsNaN(At(series, i))
    /\ \A j \in 1..order :
          ~(Gt(At(series, i - j), At(series, i)) \/ Gt(At(series, i + j), At(series, i)))

is_trough(series, i, order) ==
    /\ ~IsNaN(At(series, i))
    /\ \A j \in 1..order :
          ~(Lt(At(series, i - j), At(series, i)) \/ Lt(At(series, i + j), At(series, i)))

find_peaks_troughs(series, order) ==
    LET idx == Range(order, Len(series) - order)
        PeakAt(i) == is_peak(series, i, order)
        TroughAt(i) == is_trough(series, i, order)
    IN  [peaks |-> SelectSeq(idx, PeakAt), troughs |-> SelectSeq(idx, TroughAt)]

-----------------------------------------------------------------------------
(* detect_divergence *)

NoDivergence ==
    [bullish_regular |-> FALSE, bullish_hidden |-> FALSE,
     bearish_regular |-> FALSE, bearish_hidden |-> FALSE]

\* the comparison of the last two pivots of one kind: <<regular, hidden>> for
\* troughs; for peaks the roles of the two inequalities are exchanged
PivotCompare(price_s, rsi_s, pivots) ==
    IF Len(pivots) >= 2
    THEN LET last_idx == pivots[Len(pivots)]
             prev_idx == pivots[Len(pivots) - 1]
             p_last == At(price_s, last_idx)
             p_prev == At(price_s, prev_idx)
             r_last == At(rsi_s, last_idx)
             r_prev == At(rsi_s, prev_idx)
         IN  IF last_idx >= Len(rsi_s) - RECENT_PIVOT
             THEN [lower_price_higher_rsi |-> Lt(p_last, p_prev) /\ Gt(r_last, r_prev),
                   higher_price_lower_rsi |-> Gt(p_last, p_prev) /\ Lt(r_last, r_prev)]
             ELSE [lower_price_higher_rsi |-> FALSE, higher_price_lower_rsi |-> FALSE]
    ELSE [lower_price_higher_rsi |-> FALSE, higher_price_lower_rsi |-> FALSE]

\* detect_divergence without its test of the length
detect_divergence_no_guard(p, rsi_values, lookback) ==
    LET price_s == Window(p, lookback)
        rsi_s == Window(rsi_values, lookback)
        pt == find_peaks_troughs(rsi_s, PIVOT_ORDER)
        t == PivotCompare(price_s, rsi_s, pt.troughs)
        k == PivotCompare(price_s, rsi_s, pt.peaks)
    IN  [bullish_regular |-> t.lower_price_higher_rsi,
         bullish_hidden |-> t.higher_price_lower_rsi,
         bearish_regular |-> k.higher_price_lower_rsi,
         bearish_hidden |-> k.lower_price_higher_rsi]

detect_divergence(p, rsi_values, lookback) ==
    IF Len(p) < lookback
    THEN NoDivergence
    ELSE LET price_s == Window(p, lookback)
             rsi_s == Window(rsi_values, lookback)
             pt == find_peaks_troughs(rsi_s, PIVOT_ORDER)
             t == PivotCompare(price_s, rsi_s, pt.troughs)
             k == PivotCompare(price_s, rsi_s, pt.peaks)
         IN  [bullish_regular |-> t.lower_price_higher_rsi,
              bullish_hidden |-> t.higher_price_lower_rsi,
              bearish_regular |-> k.higher_price_lower_rsi,
              bearish_hidden |-> k.lower_price_higher_rsi]

-----------------------------------------------------------------------------
(* check_ema_cross_retest *)

\* abs(p - e) / p < 0.005, for p # 0
Touches(p, e) ==
    IF IsNaN(p) \/ IsNaN(e) THEN FALSE
    ELSE IF p > 0 THEN RETEST_MARGIN_INV * Abs(p - e) < p
    ELSE TRUE

\* the first i of range(1, lookback) at which the fast average goes from below
\* the slow one to above it (up) or from above to below (down); -1 when none
\* cross_up_idx taking the last crossing of the window instead of the first
cross_up_idx_latest(e13, e21, lookback) ==
    LET S == {i \in 1..(lookback - 1) :
                 Lt(At(e13, i - 1), At(e21, i - 1)) /\ Gt(At(e13, i), At(e21, i))}
    IN  IF S = {} THEN -1 ELSE -Min({-i : i \in S})

cross_up_idx(e13, e21, lookback) ==
    LET S == {i \in 1..(lookback - 1) :
                 Lt(At(e13, i - 1), At(e21, i - 1)) /\ Gt(At(e13, i), At(e21, i))}
    IN  IF S = {} THEN -1 ELSE Min(S)

cross_down_idx(e13, e21, lookback) ==
    LET S == {i \in 1..(lookback - 1) :
                 Gt(At(e13, i - 1), At(e21, i - 1)) /\ Lt(At(e13, i), At(e21, i))}
    IN  IF S = {} THEN -1 ELSE Min(S)

\* the retest loop from index `from`: it stops at the first touch, and the
\* division raises ZeroDivisionError at a zero price met before that
retest_found(p, e13, from, lookback) ==
    from # -1 /\ \E i \in from..(lookback - 1) :
        /\ At(p, i) # 0 /\ Touches(At(p, i), At(e13, i))
        /\ \A j \in from..(i - 1) : At(p, j) # 0

retest_raises(p, e13, from, lookback) ==
    from # -1 /\ \E i \in from..(lookback - 1) :
        /\ At(p, i) = 0
        /\ \A j \in from..(i - 1) : At(p, j) # 0 /\ ~Touches(At(p, j), At(e13, j))

check_ema_cross_retest(p, ema13, ema21, lookback) ==
    IF Len(p) < lookback
    THEN [long_setup |-> FALSE, short_setup |-> FALSE, raised |-> FALSE]
    ELSE LET p_recent == Window(p, lookback)
             e13_recent == Window(ema13, lookback)
             e21_recent == Window(ema21, lookback)
             up == cross_up_idx(e13_recent, e21_recent, lookback)
             down == cross_down_idx(e13_recent, e21_recent, lookback)
             long_raises == retest_raises(p_recent, e13_recent, up, lookback)
         IN  [long_setup |-> retest_found(p_recent, e13_recent, up, lookback),
              short_setup |-> ~long_raises
                              /\ retest_found(p_recent, e13_recent, down, lookback),
              raised |-> long_raises
                         \/ retest_raises(p_recent, e13_recent, down, lookback)]

-----------------------------------------------------------------------------
(* detect_signal_layer *)

InitialResult ==
    [long_layer |-> 0, short_layer |-> 0, long_signal |-> "None", short_signal |-> "None"]

\* the values detect_signal_layer reads and derives before it applies its rules
signal_locals(p, e13, e21, rsi, srsi) ==
    LET ema_conditions == check_ema_cross_retest(p, e13, e21, EMA_LOOKBACK)
        divs == detect_divergence(p, rsi, DIV_LOOKBACK)
    IN  [curr_price |-> Last(p),
         curr_rsi |-> Last(rsi),
         curr_srsi |-> Last(srsi),
         curr_ema13 |-> Last(e13),
         curr_ema21 |-> Last(e21),
         prev_rsi |-> Prev(rsi),
         prev_srsi |-> Prev(srsi),
         ema_bullish_cross_retest |-> ema_conditions.long_setup,
         ema_bearish_cross_retest |-> ema_conditions.short_setup,
         has_bullish_div |-> divs.bullish_regular \/ divs.bullish_hidden,
         has_bearish_div |-> divs.bearish_regular \/ divs.bearish_hidden,
         rsi_cross_up_srsi |-> Lt(Prev(rsi), Prev(srsi)) /\ Gt(Last(rsi), Last(srsi)),
         rsi_cross_down_srsi |-> Gt(Prev(rsi), Prev(srsi)) /\ Lt(Last(rsi), Last(srsi)),
         ema_cross_up |-> Lt(Prev(e13), Prev(e21)) /\ Gt(Last(e13), Last(e21)),
         ema_cross_down |-> Gt(Prev(e13), Prev(e21)) /\ Lt(Last(e13), Last(e21))]

l5_long(L) ==
    /\ L.ema_bullish_cross_retest \/ L.ema_cross_up
    /\ Lt(L.curr_rsi, RSI_OVERSOLD)
    /\ L.rsi_cross_up_srsi
    /\ L.has_bullish_div

l5_short(L) ==
    /\ L.ema_bearish_cross_retest \/ L.ema_cross_down
    /\ Gt(L.curr_rsi, RSI_OVERBOUGHT)
    /\ L.rsi_cross_down_srsi
    /\ L.has_bearish_div

\* Rule 4 long asking for the retest alone
l4_long_retest_only(L) ==
    /\ L.ema_bullish_cross_retest
    /\ Lt(L.curr_rsi, RSI_OVERSOLD)
    /\ L.has_bullish_div

l4_long(L) ==
    /\ L.ema_bullish_cross_retest \/ L.ema_cross_up
    /\ Lt(L.curr_rsi, RSI_OVERSOLD)
    /\ L.has_bullish_div

l4_short(L) ==
    /\ L.ema_bearish_cross_retest \/ L.ema_cross_down
    /\ Gt(L.curr_rsi, RSI_OVERBOUGHT)
    /\ L.has_bearish_div

\* Rule 3 long taking a previous bar with RSI equal to smoothed RSI as below it
l3_long_tie(L) ==
    /\ Lt(L.curr_rsi, RSI_OVERSOLD)
    /\ Le(L.prev_rsi, L.prev_srsi)
    /\ Gt(L.curr_rsi, L.curr_srsi)

l3_long(L) == Lt(L.curr_rsi, RSI_OVERSOLD) /\ L.rsi_cross_up_srsi

l3_short(L) == Gt(L.curr_rsi, RSI_OVERBOUGHT) /\ L.rsi_cross_down_srsi

\* Rule 2 long with the oversold threshold at 40
l2_long_below_40(L) == Lt(L.curr_rsi, 40) /\ L.has_bullish_div

l2_long(L) == Lt(L.curr_rsi, RSI_OVERSOLD) /\ L.has_bullish_div

\* Rule 2 short on the bearish divergence alone, whatever the RSI
l2_short_any_rsi(L) == L.has_bearish_div

l2_short(L) == Gt(L.curr_rsi, RSI_OVERBOUGHT) /\ L.has_bearish_div

l1_long(L) == L.ema_bullish_cross_retest

l1_short(L) == L.ema_bearish_cross_retest

\* one "if rule: result[layer] = n; result[signal] = label" statement
\* the layer set without its label
set_long_unlabelled(res, rule, layer, label) ==
    IF rule THEN [res EXCEPT !.long_layer = layer] ELSE res

set_long(res, rule, layer, label) ==
    IF rule THEN [res EXCEPT !.long_layer = layer, !.long_signal = label] ELSE res

set_short(res, rule, layer, label) ==
    IF rule THEN [res EXCEPT !.short_layer = layer, !.short_signal = label] ELSE res

\* fill_long that adds the layers of all the rules that hold
fill_long_additive(res, rule, layer, label) ==
    IF rule THEN [res EXCEPT !.long_layer = @ + layer, !.long_signal = label] ELSE res

\* fill_long without its guard: a lower rule overrides a higher one
fill_long_override(res, rule, layer, label) == set_long(res, rule, layer, label)

\* fill_short that also gives way to a long layer already set
fill_short_exclusive(res, rule, layer, label) ==
    IF res.short_layer = 0 /\ res.long_layer = 0
    THEN set_short(res, rule, layer, label)
    ELSE res

\* the same statement under "if result[layer] == 0:"
fill_long(res, rule, layer, label) ==
    IF res.long_layer = 0 THEN set_long(res, rule, layer, label) ELSE res

fill_short(res, rule, layer, label) ==
    IF res.short_layer = 0 THEN set_short(res, rule, layer, label) ELSE res

apply_rules(L) ==
    LET r5l == set_long(InitialResult, l5_long(L), 5, "STRONG_LONG (L5)")
        r5 == set_short(r5l, l5_short(L), 5, "STRONG_SHORT (L5)")
        r4l == fill_long(r5, l4_long(L), 4, "LONG (L4)")
        r4 == fill_short(r4l, l4_short(L), 4, "SHORT (L4)")
        r3l == fill_long(r4, l3_long(L), 3, "WEAK_LONG (L3)")
        r3 == fill_short(r3l, l3_short(L), 3, "WEAK_SHORT (L3)")
        r2l == fill_long(r3, l2_long(L), 2, "POTENTIAL_LONG (L2)")
        r2 == fill_short(r2l, l2_short(L), 2, "POTENTIAL_SHORT (L2)")
        r1l == fill_long(r2, l1_long(L), 1, "EMA_LONG (L1)")
    IN  fill_short(r1l, l1_short(L), 1, "EMA_SHORT (L1)")

\* the guard one bar too lenient
insufficient_data_off_by_one(p) == Len(p) < MIN_LEN - 1

\* the early return of the minimum data guard
insufficient_data(p) == Len(p) < MIN_LEN

detect_signal_layer(p, e13, e21, rsi, srsi) ==
    IF insufficient_data(p)
    THEN InitialResult
    ELSE apply_rules(signal_locals(p, e13, e21, rsi, srsi))

\* the call ends in ZeroDivisionError instead of returning
detect_signal_layer_raises(p, e13, e21, rsi, srsi) ==
    /\ ~insufficient_data(p)
    /\ check_ema_cross_retest(p, e13, e21, EMA_LOOKBACK).raised

-----------------------------------------------------------------------------
(* Input series.  A series of length n is a flat base followed by the values *)
(* of its last bars; the sets of values put the RSI pivots, the RSI levels   *)
(* around both thresholds, the RSI/smoothed-RSI crossings, the EMA crossings *)
(* and retests of the rules, a nan and a zero price inside the windows the   *)
(* code reads.                                                               *)

MaxExtra == 1

Lens == {0, 1, MIN_LEN - 1} \cup (MIN_LEN .. (MIN_LEN + MaxExtra))

\* `tail` gives the last Len(tail) values, cut on the left when n is smaller
Series(n, base, tail) ==
    [i \in 1..n |->
        IF n - i < Len(tail) THEN tail[Len(tail) - (n - i)] ELSE base]

PriceSeries(n, P2) == {Series(n, 1000, <<a, 1000, 1000>>) : a \in P2}

Ema13Series(n, E3, E2, E1, E0) ==
    {Series(n, 1000, <<a, b, c, d>>) : a \in E3, b \in E2, c \in E1, d \in E0}

Ema21Series(n) == {Series(n, 1000, << >>)}

RsiSeries(n, R5, R2, R1, R0) ==
    {Series(n, 50, <<a, 50, 50, b, c, d>>) : a \in R5, b \in R2, c \in R1, d \in R0}

SrsiSeries(n, S1, S0) == {Series(n, 50, <<a, b>>) : a \in S1, b \in S0}

NoChange == [series |-> "none", index |-> 0]

\* the other functions have not been called and the cache table is empty
NoPivots == [peaks |-> << >>, troughs |-> << >>]

NoCall == [called |-> FALSE]

IndicatorsIdle ==
    /\ ema_out = << >>
    /\ rsi_period = 0
    /\ smooth_period = 0
    /\ smoothed_out = << >>

PivotsIdle ==
    /\ in_series = << >>
    /\ in_order = 0
    /\ pivots_out = NoPivots
    /\ in_rsi_values = << >>
    /\ in_lookback = 0
    /\ divergence = NoDivergence

SettingsIdle ==
    /\ key_file = ""
    /\ env_key = ""
    /\ gemini_service = [type |-> "NoneType"]
    /\ posted = NoCall
    /\ posts = 0

ServiceIdle ==
    /\ requests = << >>
    /\ served = << >>
    /\ started = 0
    /\ SettingsIdle

CacheIdle ==
    /\ store = {}
    /\ now = 0
    /\ written = << >>
    /\ got = NoCall
    /\ sets = 0
    /\ table_exists = TRUE

Init ==
    /\ \E n \in Lens :
          /\ prices \in PriceSeries(n, {0, 999, 1000, 1001})
          /\ ema_13 \in Ema13Series(n, {996}, {996, 1004}, {996, 1004},
                                      {990, 996, 1004, 1010})
          /\ ema_21 \in Ema21Series(n)
          /\ rsi_14 \in RsiSeries(n, {20, 50, 80}, {25, 50, 75}, {25, 75},
                                  {27, 35, 73, NaN})
          /\ smoothed_rsi \in SrsiSeries(n, {25, 26, 74, 75}, {26, 74})
    /\ result = InitialResult
    /\ first = InitialResult
    /\ changed = NoChange
    /\ period = 0
    /\ rsi_out = << >>
    /\ IndicatorsIdle
    /\ PivotsIdle
    /\ CacheIdle
    /\ ServiceIdle
    /\ pc = "ready"

\* the caller runs detect_signal_layer on its series
Call ==
    /\ pc = "ready"
    /\ IF detect_signal_layer_raises(prices, ema_13, ema_21, rsi_14, smoothed_rsi)
       THEN pc' = "raised" /\ UNCHANGED result
       ELSE /\ pc' = "returned"
            /\ result' = detect_signal_layer(prices, ema_13, ema_21, rsi_14, smoothed_rsi)
    /\ UNCHANGED <<prices, ema_13, ema_21, rsi_14, smoothed_rsi, first, changed,
                   period, rsi_out, indicator_vars, pivot_vars, cache_vars,
                   service_vars>>

Next == Call

Spec == Init /\ [][Next]_vars

-----------------------------------------------------------------------------
(* Two calls on series that differ at one position *)

SeriesNames == {"prices", "ema_13", "ema_21", "rsi_14", "smoothed_rsi"}

\* the positions changed, as Python indices from the end
ChangeIndices == {-1, -3, -11, -31}

ChangeValues(name) ==
    CASE name = "prices" -> {995, 1005}
      [] name \in {"ema_13", "ema_21"} -> {990, 1010}
      [] OTHER -> {10, 90}

\* s[index] = v for a negative index
Replace(s, index, v) == [s EXCEPT ![Len(s) + 1 + index] = v]

InitPair ==
    /\ \E n \in MIN_LEN .. (MIN_LEN + MaxExtra) :
          /\ prices \in PriceSeries(n, {999, 1001})
          /\ ema_13 \in Ema13Series(n, {996}, {996, 1004}, {996, 1004}, {996, 1004, 1010})
          /\ ema_21 \in Ema21Series(n)
          /\ rsi_14 \in RsiSeries(n, {20}, {25}, {25, 75}, {27, 73})
          /\ smoothed_rsi \in SrsiSeries(n, {26, 74}, {26, 74})
    /\ result = InitialResult
    /\ first = InitialResult
    /\ changed = NoChange
    /\ period = 0
    /\ rsi_out = << >>
    /\ IndicatorsIdle
    /\ PivotsIdle
    /\ CacheIdle
    /\ ServiceIdle
    /\ pc = "ready"

\* the caller keeps the result, changes one value of one series and is ready
\* to call again with a fresh result dict
Change ==
    /\ pc = "returned"
    /\ changed = NoChange
    /\ \E name \in SeriesNames : \E index \in ChangeIndices : \E v \in ChangeValues(name) :
          /\ -index <= Len(prices)
          /\ changed' = [series |-> name, index |-> index]
          /\ prices' = IF name = "prices" THEN Replace(prices, index, v) ELSE prices
          /\ ema_13' = IF name = "ema_13" THEN Replace(ema_13, index, v) ELSE ema_13
          /\ ema_21' = IF name = "ema_21" THEN Replace(ema_21, index, v) ELSE ema_21
          /\ rsi_14' = IF name = "rsi_14" THEN Replace(rsi_14, index, v) ELSE rsi_14
          /\ smoothed_rsi' = IF name = "smoothed_rsi"
                             THEN Replace(smoothed_rsi, index, v)
                             ELSE smoothed_rsi
    /\ first' = result
    /\ result' = InitialResult
    /\ pc' = "ready"
    /\ UNCHANGED <<period, rsi_out, indicator_vars, pivot_vars, cache_vars,
                   service_vars>>

NextPair == Call \/ Change

SpecPair == InitPair /\ [][NextPair]_vars

-----------------------------------------------------------------------------
(* calculate_rsi *)
(* The values of the result are exact fractions num/den; the fraction 0/0 is  *)
(* nan, as the float division that produces it.                               *)

NaNValue == [num |-> 0, den |-> 0]

IsNaNValue(x) == x.den = 0 /\ x.num = 0

\* df['close'].diff(): nan at index 0
delta(p, i) == IF i = 0 THEN NaN ELSE At(p, i) - At(p, i - 1)

\* delta.where(delta > 0, 0): nan > 0 is false, so index 0 becomes 0
gain(p, i) == IF Gt(delta(p, i), 0) THEN delta(p, i) ELSE 0

\* -delta.where(delta < 0, 0)
loss(p, i) == IF Lt(delta(p, i), 0) THEN -delta(p, i) ELSE 0

RECURSIVE gain_sum(_, _, _)
gain_sum(p, lo, hi) == IF hi < lo THEN 0 ELSE gain(p, hi) + gain_sum(p, lo, hi - 1)

RECURSIVE loss_sum(_, _, _)
loss_sum(p, lo, hi) == IF hi < lo THEN 0 ELSE loss(p, hi) + loss_sum(p, lo, hi - 1)

\* the ratio rs itself, as a percentage, in place of 100 - 100 / (1 + rs)
rsi_value_ratio(g, l) ==
    IF l = 0
    THEN IF g = 0 THEN NaNValue ELSE [num |-> 100, den |-> 1]
    ELSE [num |-> 100 * g, den |-> l]

\* 100 - 100 / (1 + rs) with rs = avg_gain / avg_loss, the two averages being
\* the window sums g and l over the same period: x/0 is inf and 0/0 is nan
rsi_value(g, l) ==
    IF l = 0
    THEN IF g = 0 THEN NaNValue ELSE [num |-> 100, den |-> 1]
    ELSE [num |-> 100 * g, den |-> g + l]

\* rolling(window=period).mean() is nan until the window holds `period` values
rsi_at(p, i, n) ==
    IF i < n - 1
    THEN NaNValue
    ELSE rsi_value(gain_sum(p, i - n + 1, i), loss_sum(p, i - n + 1, i))

calculate_rsi(p, n) ==
    IF Len(p) < n + 1
    THEN [i \in 1..Len(p) |-> NaNValue]
    ELSE [i \in 1..Len(p) |-> rsi_at(p, i - 1, n)]

MaxRsiLen == 5
MaxPeriod == 3
MaxPrice == 3

RECURSIVE SeqsUpTo(_, _)
SeqsUpTo(S, n) ==
    IF n = 0 THEN {<< >>}
    ELSE LET shorter == SeqsUpTo(S, n - 1)
         IN  shorter \cup {Append(q, x) : q \in {r \in shorter : Len(r) = n - 1}, x \in S}

InitRsi ==
    /\ prices \in SeqsUpTo(1..MaxPrice, MaxRsiLen)
    /\ period \in 1..MaxPeriod
    /\ rsi_out = << >>
    /\ ema_13 = << >>
    /\ ema_21 = << >>
    /\ rsi_14 = << >>
    /\ smoothed_rsi = << >>
    /\ result = InitialResult
    /\ first = InitialResult
    /\ changed = NoChange
    /\ IndicatorsIdle
    /\ PivotsIdle
    /\ CacheIdle
    /\ ServiceIdle
    /\ pc = "ready"

\* the caller runs calculate_rsi on its prices
CallRsi ==
    /\ pc = "ready"
    /\ rsi_out' = calculate_rsi(prices, period)
    /\ pc' = "rsi_returned"
    /\ UNCHANGED <<prices, ema_13, ema_21, rsi_14, smoothed_rsi, result, first, changed,
                   period, indicator_vars, pivot_vars, cache_vars,
                   service_vars>>

NextRsi == CallRsi

SpecRsi == InitRsi /\ [][NextRsi]_vars

-----------------------------------------------------------------------------
(* calculate_ema and calculate_smoothed_rsi *)
(* Float arithmetic is exact arithmetic on fractions in lowest terms.         *)

RECURSIVE Gcd(_, _)
Gcd(a, b) == IF b = 0 THEN a ELSE Gcd(b, a % b)

\* n/d for d > 0
Fraction(n, d) ==
    LET k == Gcd(Abs(n), d)
    IN  [num |-> n \div k, den |-> d \div k]

\* the float of an int of the input list
Value(n) == [num |-> n, den |-> 1]

Values(s) == [i \in 1..Len(s) |-> Value(s[i])]

One == Value(1)

Add(x, y) == Fraction(x.num * y.den + y.num * x.den, x.den * y.den)

Sub(x, y) == Fraction(x.num * y.den - y.num * x.den, x.den * y.den)

Mul(x, y) == Fraction(x.num * y.num, x.den * y.den)

\* x / y for y > 0
Div(x, y) == Fraction(x.num * y.den, x.den * y.num)

\* x == y for two floats that are not nan
Same(x, y) == x.num * y.den = y.num * x.den

\* alpha with the weight of Wilder's average, 1/span
alpha_rma(span) == Fraction(1, span)

\* ewm(span=...): alpha = 2 / (span + 1)
alpha(span) == Fraction(2, span + 1)

\* pandas' ewm(adjust=False).mean() with the defaults ignore_na=False and
\* min_periods=0, after its first i+1 inputs: `weighted` is the output at
\* index i (nan before the first input that is not nan), `old_wt` the weight
\* of the running average, which shrinks by 1-alpha at every nan met since
\* the last value
RECURSIVE ewm_state(_, _, _)
ewm_state(x, i, a) ==
    IF i = 0
    THEN [weighted |-> At(x, 0), old_wt |-> One]
    ELSE LET s == ewm_state(x, i - 1, a)
             cur == At(x, i)
             w == Mul(s.old_wt, Sub(One, a))
         IN  IF ~IsNaNValue(s.weighted)
             THEN IF ~IsNaNValue(cur)
                  THEN [weighted |->
                            IF Same(s.weighted, cur)
                            THEN s.weighted
                            ELSE Div(Add(Mul(w, s.weighted), Mul(a, cur)), Add(w, a)),
                        old_wt |-> One]
                  ELSE [weighted |-> s.weighted, old_wt |-> w]
             ELSE IF ~IsNaNValue(cur)
                  THEN [weighted |-> cur, old_wt |-> s.old_wt]
                  ELSE s

ewm_mean(x, span) == [i \in 1..Len(x) |-> ewm_state(x, i - 1, alpha(span)).weighted]

\* calculate_ema smoothing a series of any length
calculate_ema_no_guard(x, span) == ewm_mean(x, span)

calculate_ema(x, span) ==
    IF Len(x) < span
    THEN [i \in 1..Len(x) |-> NaNValue]
    ELSE ewm_mean(x, span)

calculate_smoothed_rsi(p, n, span) == ewm_mean(calculate_rsi(p, n), span)

MaxEmaPeriod == 4

InitEma ==
    /\ prices \in SeqsUpTo(1..MaxPrice, MaxRsiLen)
    /\ period \in 1..MaxEmaPeriod
    /\ rsi_out = << >>
    /\ ema_13 = << >>
    /\ ema_21 = << >>
    /\ rsi_14 = << >>
    /\ smoothed_rsi = << >>
    /\ result = InitialResult
    /\ first = InitialResult
    /\ changed = NoChange
    /\ IndicatorsIdle
    /\ PivotsIdle
    /\ CacheIdle
    /\ ServiceIdle
    /\ pc = "ready"

\* the caller runs calculate_ema on its prices
CallEma ==
    /\ pc = "ready"
    /\ ema_out' = calculate_ema(Values(prices), period)
    /\ pc' = "ema_returned"
    /\ UNCHANGED <<prices, ema_13, ema_21, rsi_14, smoothed_rsi, result, first, changed,
                   period, rsi_out, rsi_period, smooth_period, smoothed_out,
                   pivot_vars, cache_vars,
                   service_vars>>

NextEma == CallEma

SpecEma == InitEma /\ [][NextEma]_vars

MaxSmoothLen == 4
MaxRsiPeriod == 2
MaxSmoothPeriod == 3

InitSmoothed ==
    /\ prices \in SeqsUpTo(1..MaxPrice, MaxSmoothLen)
    /\ rsi_period \in 1..MaxRsiPeriod
    /\ smooth_period \in 1..MaxSmoothPeriod
    /\ period = 0
    /\ rsi_out = << >>
    /\ ema_out = << >>
    /\ smoothed_out = << >>
    /\ ema_13 = << >>
    /\ ema_21 = << >>
    /\ rsi_14 = << >>
    /\ smoothed_rsi = << >>
    /\ result = InitialResult
    /\ first = InitialResult
    /\ changed = NoChange
    /\ PivotsIdle
    /\ CacheIdle
    /\ ServiceIdle
    /\ pc = "ready"

\* the caller runs calculate_smoothed_rsi on its prices; rsi_out is the list
\* the function gets from calculate_rsi
CallSmoothedRsi ==
    /\ pc = "ready"
    /\ rsi_out' = calculate_rsi(prices, rsi_period)
    /\ smoothed_out' = calculate_smoothed_rsi(prices, rsi_period, smooth_period)
    /\ pc' = "smoothed_returned"
    /\ UNCHANGED <<prices, ema_13, ema_21, rsi_14, smoothed_rsi, result, first, changed,
                   period, ema_out, rsi_period, smooth_period, pivot_vars, cache_vars,
                   service_vars>>

NextSmoothed == CallSmoothedRsi

SpecSmoothed == InitSmoothed /\ [][NextSmoothed]_vars

-----------------------------------------------------------------------------
(* find_peaks_troughs and detect_divergence called on their own *)

MaxPivotLen == 6
MaxPivotLevel == 3
MaxOrder == 2

\* a series rising strictly to one apex and falling strictly after it
ApexSeries == <<10, 12, 14, 16, 18, 20, 18, 16, 14, 12, 10>>

InitPivots ==
    /\ in_series \in SeqsUpTo((1..MaxPivotLevel) \cup {NaN}, MaxPivotLen) \cup {ApexSeries}
    /\ in_order \in 1..MaxOrder
    /\ pivots_out = NoPivots
    /\ in_rsi_values = << >>
    /\ in_lookback = 0
    /\ divergence = NoDivergence
    /\ prices = << >>
    /\ ema_13 = << >>
    /\ ema_21 = << >>
    /\ rsi_14 = << >>
    /\ smoothed_rsi = << >>
    /\ result = InitialResult
    /\ first = InitialResult
    /\ changed = NoChange
    /\ period = 0
    /\ rsi_out = << >>
    /\ IndicatorsIdle
    /\ CacheIdle
    /\ ServiceIdle
    /\ pc = "ready"

\* the caller runs find_peaks_troughs on its series
CallPivots ==
    /\ pc = "ready"
    /\ pivots_out' = find_peaks_troughs(in_series, in_order)
    /\ pc' = "pivots_returned"
    /\ UNCHANGED <<prices, ema_13, ema_21, rsi_14, smoothed_rsi, result, first, changed,
                   period, rsi_out, indicator_vars, in_series, in_order, in_rsi_values,
                   in_lookback, divergence, cache_vars,
                   service_vars>>

NextPivots == CallPivots

SpecPivots == InitPivots /\ [][NextPivots]_vars

MaxDivLen == 8
MaxRsiLevel == 2

Rising(n) == [i \in 1..n |-> i]

Falling(n) == [i \in 1..n |-> n + 1 - i]

InitDivergence ==
    /\ \E n \in 0..MaxDivLen :
          /\ prices \in {Rising(n), Falling(n)}
          /\ in_rsi_values \in [1..n -> 1..MaxRsiLevel]
    /\ in_lookback \in {MaxDivLen, DIV_LOOKBACK}
    /\ divergence = NoDivergence
    /\ in_series = << >>
    /\ in_order = 0
    /\ pivots_out = NoPivots
    /\ ema_13 = << >>
    /\ ema_21 = << >>
    /\ rsi_14 = << >>
    /\ smoothed_rsi = << >>
    /\ result = InitialResult
    /\ first = InitialResult
    /\ changed = NoChange
    /\ period = 0
    /\ rsi_out = << >>
    /\ IndicatorsIdle
    /\ CacheIdle
    /\ ServiceIdle
    /\ pc = "ready"

\* the caller runs detect_divergence on its prices and RSI values
CallDivergence ==
    /\ pc = "ready"
    /\ divergence' = detect_divergence(prices, in_rsi_values, in_lookback)
    /\ pc' = "divergence_returned"
    /\ UNCHANGED <<prices, ema_13, ema_21, rsi_14, smoothed_rsi, result, first, changed,
                   period, rsi_out, indicator_vars, in_series, in_order, pivots_out,
                   in_rsi_values, in_lookback, cache_vars,
                   service_vars>>

NextDivergence == CallDivergence

SpecDivergence == InitDivergence /\ [][NextDivergence]_vars

-----------------------------------------------------------------------------
(* CacheManager *)
(* A Python dict is the sequence of its (key, value) items, a JSON text the   *)
(* sequence of its tokens, the table api_cache the set of its rows.  Time is  *)
(* counted in whole ticks.                                                    *)

None == [type |-> "NoneType"]

Dict(items) == [type |-> "dict", items |-> items]

\* json.dumps of a dict with string keys and int values
json_dumps(d) ==
    LET n == Len(d.items)
        token(k) ==
            IF k = 1 THEN "{"
            ELSE IF k = 4 * n + 1 \/ n = 0 THEN "}"
            ELSE IF k % 4 = 2 THEN d.items[(k + 2) \div 4][1]
            ELSE IF k % 4 = 3 THEN ":"
            ELSE IF k % 4 = 0 THEN d.items[k \div 4][2]
            ELSE ","
    IN  [k \in 1..(IF n = 0 THEN 2 ELSE 4 * n + 1) |-> token(k)]

\* json.loads of such a text
json_loads(text) ==
    Dict([i \in 1..((Len(text) - 1) \div 4) |-> <<text[4 * i - 2], text[4 * i]>>])

\* the key made of the limit alone
_get_cache_key_limit_only(limit, timeframe) == "heatmap_" \o ToString(limit)

_get_cache_key(limit, timeframe) ==
    "heatmap_" \o ToString(limit) \o "_" \o timeframe

\* the row with the time of the call as its expiry
cache_row_no_ttl(key, data, t, ttl_seconds) ==
    [key |-> key, data |-> json_dumps(data), timestamp |-> t, expires_at |-> t]

\* the row set_cache writes at time t
cache_row(key, data, t, ttl_seconds) ==
    [key |-> key, data |-> json_dumps(data), timestamp |-> t,
     expires_at |-> t + ttl_seconds]

\* INSERT OR REPLACE on the primary key `key`
insert_or_replace(rows, row) == {r \in rows : r.key # row.key} \cup {row}

\* no cleanup
delete_expired_none(rows, t) == rows

\* DELETE FROM api_cache WHERE expires_at < ?
delete_expired(rows, t) == {r \in rows : ~(r.expires_at < t)}

\* SELECT data FROM api_cache WHERE key = ? AND expires_at > ?
select_data(rows, key, t) == {r.data : r \in {q \in rows : q.key = key /\ q.expires_at > t}}

\* what get_cache returns at time t: the row of fetchone() decoded, or None
get_cache(rows, limit, timeframe, t) ==
    LET found == select_data(delete_expired(rows, t), _get_cache_key(limit, timeframe), t)
    IN  IF found = {} THEN None ELSE json_loads(CHOOSE d \in found : TRUE)

MaxSets == 2
MaxTime == 2
MaxTtl == 2

Limits == {50, 100}

Timeframes == {"1h", "4h"}

DataValues == {Dict(<< <<"version", 1>> >>), Dict(<< <<"version", 2>> >>)}

Never == [set |-> FALSE]

InitCache ==
    /\ store = {}
    /\ now = 0
    /\ written = [k \in Limits \X Timeframes |-> Never]
    /\ got = NoCall
    /\ sets = 0
    /\ table_exists = TRUE
    /\ prices = << >>
    /\ ema_13 = << >>
    /\ ema_21 = << >>
    /\ rsi_14 = << >>
    /\ smoothed_rsi = << >>
    /\ result = InitialResult
    /\ first = InitialResult
    /\ changed = NoChange
    /\ period = 0
    /\ rsi_out = << >>
    /\ IndicatorsIdle
    /\ PivotsIdle
    /\ ServiceIdle
    /\ pc = "ready"

\* set_cache(limit, timeframe, data, ttl_seconds)
SetCache ==
    /\ sets < MaxSets
    /\ \E limit \in Limits : \E timeframe \in Timeframes :
       \E data \in DataValues : \E ttl_seconds \in 0..MaxTtl :
          /\ store' = insert_or_replace(store,
                          cache_row(_get_cache_key(limit, timeframe), data, now, ttl_seconds))
          /\ written' = [written EXCEPT ![<<limit, timeframe>>] =
                            [set |-> TRUE, data |-> data, at |-> now, ttl |-> ttl_seconds]]
    /\ sets' = sets + 1
    /\ got' = NoCall
    /\ UNCHANGED <<prices, ema_13, ema_21, rsi_14, smoothed_rsi, result, first, changed,
                   period, rsi_out, indicator_vars, pivot_vars, now, table_exists, pc,
                   service_vars>>

\* get_cache(limit, timeframe): the cleanup is committed, the value returned
GetCache ==
    /\ \E limit \in Limits : \E timeframe \in Timeframes :
          got' = [called |-> TRUE, limit |-> limit, timeframe |-> timeframe,
                  value |-> get_cache(store, limit, timeframe, now)]
    /\ store' = delete_expired(store, now)
    /\ UNCHANGED <<prices, ema_13, ema_21, rsi_14, smoothed_rsi, result, first, changed,
                   period, rsi_out, indicator_vars, pivot_vars, now, written, sets,
                   table_exists, pc,
                   service_vars>>

\* time passes between two calls
Tick ==
    /\ now < MaxTime
    /\ now' = now + 1
    /\ got' = NoCall
    /\ UNCHANGED <<prices, ema_13, ema_21, rsi_14, smoothed_rsi, result, first, changed,
                   period, rsi_out, indicator_vars, pivot_vars, store, written, sets,
                   table_exists, pc,
                   service_vars>>

NextCache == SetCache \/ GetCache \/ Tick

SpecCache == InitCache /\ [][NextCache]_vars

-----------------------------------------------------------------------------
(* CacheManager with a failing database *)
(* A call runs its statements on its own connection; what it wrote reaches   *)
(* the table at conn.commit().  A statement that fails raises inside the try *)
(* block, and the connection is dropped with its transaction uncommitted.    *)

\* where a call fails: opening the connection, executing a statement,
\* committing; "none" when nothing fails
SetFailures == {"none", "connect", "execute", "commit"}

GetFailures == {"none", "connect", "delete", "select", "commit"}

\* `except Exception` catches every one of them
Caught == SetFailures \cup GetFailures

\* without the table every statement fails
SetFailure(exists, fail) ==
    IF ~exists /\ fail \in {"none", "commit"} THEN "execute" ELSE fail

GetFailure(exists, fail) ==
    IF ~exists /\ fail \in {"none", "select", "commit"} THEN "delete" ELSE fail

\* set_cache under failure `fail`: the table after the call, and whether an
\* exception leaves the call
set_cache_run(rows, limit, timeframe, data, ttl_seconds, t, fail) ==
    LET work == insert_or_replace(rows,
                    cache_row(_get_cache_key(limit, timeframe), data, t, ttl_seconds))
    IN  [rows |-> IF fail = "none" THEN work ELSE rows,
         raised |-> fail # "none" /\ fail \notin Caught]

\* get_cache with the cleanup committed as soon as it has run
get_cache_run_autocommit(rows, limit, timeframe, t, fail) ==
    LET work == delete_expired(rows, t)
        found == select_data(work, _get_cache_key(limit, timeframe), t)
    IN  [rows |-> IF fail \in {"none", "select", "commit"} THEN work ELSE rows,
         value |-> IF fail = "none" /\ found # {}
                   THEN json_loads(CHOOSE d \in found : TRUE)
                   ELSE None,
         raised |-> fail # "none" /\ fail \notin Caught]

\* get_cache under failure `fail`: the table after the call, the value
\* returned, and whether an exception leaves the call
get_cache_run(rows, limit, timeframe, t, fail) ==
    LET work == delete_expired(rows, t)
        found == select_data(work, _get_cache_key(limit, timeframe), t)
    IN  [rows |-> IF fail = "none" THEN work ELSE rows,
         value |-> IF fail = "none" /\ found # {}
                   THEN json_loads(CHOOSE d \in found : TRUE)
                   ELSE None,
         raised |-> fail # "none" /\ fail \notin Caught]

FaultLimits == {100}

\* init_db has run, with or without success
InitFaults ==
    /\ store = {}
    /\ now = 0
    /\ written = [k \in FaultLimits \X Timeframes |-> Never]
    /\ got = NoCall
    /\ sets = 0
    /\ table_exists \in BOOLEAN
    /\ prices = << >>
    /\ ema_13 = << >>
    /\ ema_21 = << >>
    /\ rsi_14 = << >>
    /\ smoothed_rsi = << >>
    /\ result = InitialResult
    /\ first = InitialResult
    /\ changed = NoChange
    /\ period = 0
    /\ rsi_out = << >>
    /\ IndicatorsIdle
    /\ PivotsIdle
    /\ ServiceIdle
    /\ pc = "ready"

\* set_cache(limit, timeframe, data, ttl_seconds), failing or not
SetCacheFaulty ==
    /\ sets < MaxSets
    /\ \E limit \in FaultLimits : \E timeframe \in Timeframes :
       \E data \in DataValues : \E ttl_seconds \in 0..MaxTtl : \E f \in SetFailures :
          LET fail == SetFailure(table_exists, f)
              run == set_cache_run(store, limit, timeframe, data, ttl_seconds, now, fail)
          IN  /\ store' = run.rows
              /\ written' = IF fail = "none"
                            THEN [written EXCEPT ![<<limit, timeframe>>] =
                                     [set |-> TRUE, data |-> data, at |-> now,
                                      ttl |-> ttl_seconds]]
                            ELSE written
              /\ got' = [called |-> TRUE, op |-> "set_cache", limit |-> limit,
                         timeframe |-> timeframe, value |-> None, fail |-> fail,
                         before |-> store]
              /\ pc' = IF run.raised THEN "raised" ELSE pc
    /\ sets' = sets + 1
    /\ UNCHANGED <<prices, ema_13, ema_21, rsi_14, smoothed_rsi, result, first, changed,
                   period, rsi_out, indicator_vars, pivot_vars, now, table_exists,
                   service_vars>>

\* get_cache(limit, timeframe), failing or not
GetCacheFaulty ==
    /\ \E limit \in FaultLimits : \E timeframe \in Timeframes : \E f \in GetFailures :
          LET fail == GetFailure(table_exists, f)
              run == get_cache_run(store, limit, timeframe, now, fail)
          IN  /\ store' = run.rows
              /\ got' = [called |-> TRUE, op |-> "get_cache", limit |-> limit,
                         timeframe |-> timeframe, value |-> run.value, fail |-> fail,
                         before |-> store]
              /\ pc' = IF run.raised THEN "raised" ELSE pc
    /\ UNCHANGED <<prices, ema_13, ema_21, rsi_14, smoothed_rsi, result, first, changed,
                   period, rsi_out, indicator_vars, pivot_vars, now, written, sets,
                   table_exists,
                   service_vars>>

NextFaults == SetCacheFaulty \/ GetCacheFaulty \/ Tick

SpecFaults == InitFaults /\ [][NextFaults]_vars

-----------------------------------------------------------------------------
(* GET /api/heatmap (main.py): the handler runs on the event loop and gives
   way to other requests at its two awaits, get_top_symbols and gather. Time
   is in seconds. A payload carries one signal's rsi in place of the list of
   signals; NaN is the float nan that calculate_rsi yields on a flat window. *)

TTL_SLOW == 300
TTL_FAST == 60

SlowTimeframes == {"4h", "12h", "1d", "1w"}

\* ttl = 300 if timeframe in ['4h', '12h', '1d', '1w'] else 60
ttl_of(timeframe) == IF timeframe \in SlowTimeframes THEN TTL_SLOW ELSE TTL_FAST

\* the success response built after processing, at time t
response_data(timeframe, t, rsi) ==
    Dict(<< <<"success", TRUE>>, <<"timeframe", timeframe>>, <<"updated_at", t>>,
            <<"total_coins", 1>>, <<"rsi", rsi>> >>)

\* the failure response of the empty symbol list and of the except branch
error_response(timeframe, error) ==
    Dict(<< <<"success", FALSE>>, <<"error", error>>, <<"timeframe", timeframe>>,
            <<"signals", 0>> >>)

\* a float that json.dumps(allow_nan=False) refuses
has_nan(d) == \E i \in 1..Len(d.items) : d.items[i][1] = "rsi" /\ d.items[i][2] = NaN

\* `if cached_data:` a dict is true unless it is empty
truthy(v) == v # None /\ v.items # << >>

ServerError == [status |-> 500, body |-> None, x_cache |-> "absent"]

\* JSONResponse(content, headers): the body is rendered in the constructor,
\* with allow_nan=False; raised is the ValueError of a nan
JSONResponse(content, x_cache) ==
    [raised |-> has_nan(content),
     response |-> [status |-> 200, body |-> content, x_cache |-> x_cache]]

\* the miss path stores whatever it built, failures included
miss_path_store_all(rows, limit, timeframe, t, raises, rsi) ==
    LET data == IF raises THEN error_response(timeframe, "error")
                ELSE response_data(timeframe, t, rsi)
        stored == insert_or_replace(rows, cache_row(_get_cache_key(limit, timeframe),
                                                    data, t, ttl_of(timeframe)))
        sent == JSONResponse(data, "MISS")
    IN  [rows |-> stored, response |-> sent.response]

\* lines 131-221 after gather: processing raises, or yields a payload with
\* the given rsi that is stored and then rendered
miss_path(rows, limit, timeframe, t, raises, rsi) ==
    IF raises
    THEN [rows |-> rows,
          response |-> JSONResponse(error_response(timeframe, "error"), "absent").response]
    ELSE LET data == response_data(timeframe, t, rsi)
             stored == insert_or_replace(rows, cache_row(_get_cache_key(limit, timeframe),
                                                         data, t, ttl_of(timeframe)))
             sent == JSONResponse(data, "MISS")
         IN  [rows |-> stored,
              response |-> IF sent.raised
                           THEN JSONResponse(error_response(timeframe, "error"),
                                             "absent").response
                           ELSE sent.response]

MaxClients == 2
MaxRequests == 2
MaxElapses == 1

RsiValues == {50, NaN}
SymbolOutcomes == {"symbols", "empty", "raises"}

Idle == [pc |-> "idle"]

HeatmapIdle(clients) ==
    /\ requests = [c \in clients |-> Idle]
    /\ served = [k \in FaultLimits \X Timeframes |-> Never]
    /\ started = 0

InitHeatmapOf(clients) ==
    /\ prices = << >> /\ ema_13 = << >> /\ ema_21 = << >>
    /\ rsi_14 = << >> /\ smoothed_rsi = << >>
    /\ result = InitialResult
    /\ first = InitialResult
    /\ changed = NoChange
    /\ period = 0
    /\ rsi_out = << >>
    /\ IndicatorsIdle
    /\ PivotsIdle
    /\ store = {}
    /\ now = 0
    /\ written = << >>
    /\ got = NoCall
    /\ sets = 0
    /\ table_exists = TRUE
    /\ HeatmapIdle(clients)
    /\ SettingsIdle
    /\ pc = "ready"

\* one client: requests one after another
InitHeatmap == InitHeatmapOf({1})

\* concurrent clients
InitConcurrent == InitHeatmapOf(1..MaxClients)

heatmap_frame ==
    UNCHANGED <<prices, ema_13, ema_21, rsi_14, smoothed_rsi, result, first, changed,
                period, rsi_out, indicator_vars, pivot_vars, written, got, sets,
                table_exists, settings_vars, pc>>

\* lines 88-91: the cache lookup, and the answer from the cache on a hit
Receive(c) ==
    /\ requests[c].pc = "idle"
    /\ started < MaxRequests
    /\ \E limit \in FaultLimits : \E timeframe \in Timeframes :
          LET cached_data == get_cache(store, limit, timeframe, now)
              known == served[<<limit, timeframe>>]
              req == [pc |-> "get_top_symbols", limit |-> limit,
                      timeframe |-> timeframe, at |-> now,
                      cached_data |-> cached_data, fetched |-> FALSE,
                      expected |-> IF known.set /\ now < known.expires_at
                                   THEN known.payload ELSE None,
                      stored |-> None, response |-> ServerError]
          IN  IF truthy(cached_data)
              THEN LET sent == JSONResponse(cached_data, "HIT")
                   IN  requests' = [requests EXCEPT ![c] =
                          [req EXCEPT !.pc = "done",
                                      !.response = IF sent.raised THEN ServerError
                                                   ELSE sent.response]]
              ELSE requests' = [requests EXCEPT ![c] = req]
    /\ store' = delete_expired(store, now)
    /\ started' = started + 1
    /\ UNCHANGED <<now, served>>
    /\ heatmap_frame

\* lines 94-105: await fetcher.get_top_symbols(limit=limit)
TopSymbols(c) ==
    /\ requests[c].pc = "get_top_symbols"
    /\ \E outcome \in SymbolOutcomes :
          LET req == requests[c]
              failure == JSONResponse(error_response(req.timeframe, "error"),
                                      "absent").response
          IN  requests' = [requests EXCEPT ![c] =
                 IF outcome = "symbols"
                 THEN [req EXCEPT !.pc = "gather", !.fetched = TRUE]
                 ELSE [req EXCEPT !.pc = "done", !.fetched = TRUE,
                                  !.response = failure]]
    /\ UNCHANGED <<store, now, served, started>>
    /\ heatmap_frame

\* lines 109-221: await asyncio.gather(*tasks), then the rest of the handler
Gather(c) ==
    /\ requests[c].pc = "gather"
    /\ \E raises \in BOOLEAN : \E rsi \in RsiValues :
          LET req == requests[c]
              run == miss_path(store, req.limit, req.timeframe, now, raises, rsi)
              data == IF raises THEN None
                      ELSE response_data(req.timeframe, now, rsi)
          IN  /\ store' = run.rows
              /\ requests' = [requests EXCEPT ![c] =
                    [req EXCEPT !.pc = "done", !.response = run.response,
                                !.stored = data]]
              /\ served' = IF run.response.x_cache = "MISS"
                           THEN [served EXCEPT ![<<req.limit, req.timeframe>>] =
                                   [set |-> TRUE, payload |-> data,
                                    expires_at |-> now + ttl_of(req.timeframe)]]
                           ELSE served
    /\ UNCHANGED <<now, started>>
    /\ heatmap_frame

\* the response has left; the client may ask again
Deliver(c) ==
    /\ requests[c].pc = "done"
    /\ requests' = [requests EXCEPT ![c] = Idle]
    /\ UNCHANGED <<store, now, served, started>>
    /\ heatmap_frame

\* time passes, by the shorter or the longer ttl, until MaxElapses * TTL_FAST
Elapse ==
    /\ now < MaxElapses * TTL_FAST
    /\ \E d \in {TTL_FAST, TTL_SLOW} : now' = now + d
    /\ UNCHANGED <<store, requests, served, started>>
    /\ heatmap_frame

NextHeatmap ==
    \/ \E c \in DOMAIN requests : Receive(c)
    \/ \E c \in DOMAIN requests : TopSymbols(c)
    \/ \E c \in DOMAIN requests : Gather(c)
    \/ \E c \in DOMAIN requests : Deliver(c)
    \/ Elapse

SpecHeatmap == InitHeatmap /\ [][NextHeatmap]_vars

SpecConcurrent == InitConcurrent /\ [][NextHeatmap]_vars

-----------------------------------------------------------------------------
(* POST /api/settings/apikey (main.py) over the key file, the environment
   and the global gemini_service (gemini_service.py). The empty string stands
   for a missing file and an unset variable, which the code treats like an
   empty one. *)

\* str.strip() on the texts used here
strip(text) ==
    CASE text = " " -> ""
      [] text = " k1 " -> "k1"
      [] OTHER -> text

\* environment variable first, then the file
get_api_key(env, file) ==
    IF env # "" THEN env
    ELSE IF strip(file) # "" THEN strip(file)
    ELSE ""

\* the file after save_api_key(api_key): written, or as it was when write_text fails
save_api_key(file, api_key, writable) == IF writable THEN strip(api_key) ELSE file

\* GeminiService(): the n-th object constructed
GeminiService(env, file, n) ==
    LET api_key == get_api_key(env, file)
    IN  [type |-> "GeminiService", api_key |-> api_key, model |-> api_key # "", built |-> n]

\* what validate_api_key may return
Validations ==
    {[valid |-> TRUE, error |-> "None"]} \cup
    {[valid |-> FALSE, error |-> e] :
        e \in {"empty_response", "invalid_api_key", "rate_limit", "model_not_found", "other"}}

Answer(status_code, success, warning) ==
    [status_code |-> status_code, success |-> success, warning |-> warning]

\* set_apikey(request): the file, the global service and the answer after it
set_apikey(in_key, validation, writable, env, file, service, n) ==
    LET api_key == strip(in_key)
        saved == save_api_key(file, api_key, writable)
    IN  IF api_key = ""
        THEN [file |-> file, service |-> service, answer |-> Answer(400, FALSE, "None")]
        ELSE IF ~validation.valid
        THEN IF validation.error = "rate_limit"
             THEN [file |-> saved, service |-> GeminiService(env, saved, n),
                   answer |-> Answer(200, TRUE, "rate_limit")]
             ELSE [file |-> file, service |-> service,
                   answer |-> Answer(400, FALSE, "None")]
        ELSE IF writable
        THEN [file |-> saved, service |-> GeminiService(env, saved, n),
              answer |-> Answer(200, TRUE, "None")]
        ELSE [file |-> saved, service |-> service, answer |-> Answer(500, FALSE, "None")]

MaxPosts == 2

PostedKeys == {"", " ", "k1", " k1 ", "k2"}

InitSettings ==
    /\ prices = << >>
    /\ ema_13 = << >>
    /\ ema_21 = << >>
    /\ rsi_14 = << >>
    /\ smoothed_rsi = << >>
    /\ result = InitialResult
    /\ first = InitialResult
    /\ changed = NoChange
    /\ period = 0
    /\ rsi_out = << >>
    /\ IndicatorsIdle
    /\ PivotsIdle
    /\ CacheIdle
    /\ requests = << >>
    /\ served = << >>
    /\ started = 0
    /\ key_file \in {"", "k2"}
    /\ env_key \in {"", "e1"}
    /\ gemini_service = GeminiService(env_key, key_file, 0)
    /\ posted = NoCall
    /\ posts = 0
    /\ pc = "ready"

\* POST /api/settings/apikey
SetApikey ==
    /\ posts < MaxPosts
    /\ \E in_key \in PostedKeys : \E validation \in Validations : \E writable \in BOOLEAN :
          LET run == set_apikey(in_key, validation, writable, env_key, key_file,
                                gemini_service, posts + 1)
          IN  /\ key_file' = run.file
              /\ gemini_service' = run.service
              /\ posted' = [called |-> TRUE, api_key |-> in_key, validation |-> validation,
                            writable |-> writable, answer |-> run.answer,
                            file_before |-> key_file, service_before |-> gemini_service]
    /\ posts' = posts + 1
    /\ UNCHANGED <<prices, ema_13, ema_21, rsi_14, smoothed_rsi, result, first, changed,
                   period, rsi_out, indicator_vars, pivot_vars, cache_vars, requests,
                   served, started, env_key, pc>>

NextSettings == SetApikey

SpecSettings == InitSettings /\ [][NextSettings]_vars

-----------------------------------------------------------------------------
(* The call under examination *)

Locals == signal_locals(prices, ema_13, ema_21, rsi_14, smoothed_rsi)

Divs == detect_divergence(prices, rsi_14, DIV_LOOKBACK)

Returned == pc = "returned"

\* the call returned past the minimum data guard
Evaluated == Returned /\ Len(prices) >= MIN_LEN

-----------------------------------------------------------------------------
(* Minimum data guard *)

\* C1 as stated: a call with fewer than 50 prices returns layers 0 and signals
\* None whatever the series contain
C1_GuardBelow50 ==
    Len(prices) < 50 =>
        /\ pc # "raised"
        /\ Returned => result = InitialResult

\* C1 amended: the guard of the code is at 30 prices; a call with fewer than 30
\* prices returns layers 0 and signals None whatever the series contain, and
\* never raises
C1_GuardBelow30 ==
    Len(prices) < MIN_LEN =>
        /\ pc # "raised"
        /\ Returned => result = InitialResult

\* a 29-bar call whose last bars satisfy Rule 1 on the long side
C1_Witness ==
    /\ Returned
    /\ Len(prices) = MIN_LEN - 1
    /\ l1_long(Locals)
    /\ result = InitialResult

-----------------------------------------------------------------------------
(* Layers *)

\* C2: the returned layers are integers in 0..5
C2_LayerBound ==
    Returned => result.long_layer \in 0..5 /\ result.short_layer \in 0..5

\* the top layer is returned on one side while the other side is set too
C2_Witness ==
    /\ Returned
    /\ result.long_layer = 5
    /\ result.short_layer > 0

HighestLong(L) ==
    IF l5_long(L) THEN 5 ELSE IF l4_long(L) THEN 4 ELSE IF l3_long(L) THEN 3
    ELSE IF l2_long(L) THEN 2 ELSE IF l1_long(L) THEN 1 ELSE 0

HighestShort(L) ==
    IF l5_short(L) THEN 5 ELSE IF l4_short(L) THEN 4 ELSE IF l3_short(L) THEN 3
    ELSE IF l2_short(L) THEN 2 ELSE IF l1_short(L) THEN 1 ELSE 0

\* C3: on each side the returned layer is the number of the highest-numbered
\* rule that holds, 0 when none holds
C3_HighestRuleWins ==
    Evaluated =>
        LET L == Locals
        IN  /\ result.long_layer = HighestLong(L)
            /\ result.short_layer = HighestShort(L)

\* Rule 3 decides the long side although Rule 1 holds as well
C3_Witness ==
    /\ Evaluated
    /\ result.long_layer = 3
    /\ l1_long(Locals)
    /\ ~l2_long(Locals)

AnyLong(L) == l5_long(L) \/ l4_long(L) \/ l3_long(L) \/ l2_long(L) \/ l1_long(L)

AnyShort(L) == l5_short(L) \/ l4_short(L) \/ l3_short(L) \/ l2_short(L) \/ l1_short(L)

\* C5: each side is nonzero exactly when one of its own rules holds, whatever
\* the other side is, so both sides can be nonzero in one result
C5_SidesIndependent ==
    Evaluated =>
        LET L == Locals
        IN  /\ result.long_layer > 0 <=> AnyLong(L)
            /\ result.short_layer > 0 <=> AnyShort(L)

\* a result with both sides set
C5_Witness ==
    /\ Evaluated
    /\ result.long_layer > 0
    /\ result.short_layer > 0

-----------------------------------------------------------------------------
(* Rule 2: RSI level and divergence *)

\* C6 as stated, at the bar the code evaluates: Rule 2 long is RSI < 40 with a
\* regular bullish divergence, Rule 2 short RSI > 60 with a regular bearish one;
\* a side at layer 2 or 4 has its Rule 2, and Rule 2 lifts its side to 2 or more
C6_Rule2At40Regular ==
    Evaluated =>
        LET L == Locals
            D == Divs
            long2 == Lt(Last(rsi_14), 40) /\ D.bullish_regular
            short2 == Gt(Last(rsi_14), 60) /\ D.bearish_regular
        IN  /\ l2_long(L) <=> long2
            /\ l2_short(L) <=> short2
            /\ result.long_layer \in {2, 4} => long2
            /\ long2 => result.long_layer >= 2
            /\ result.short_layer \in {2, 4} => short2
            /\ short2 => result.short_layer >= 2

\* C6 amended: Rule 2 long holds exactly when RSI at the most recent bar is
\* below 30 and a bullish divergence, regular or hidden, was found; Rule 2
\* short exactly when it is above 70 and a bearish divergence, regular or
\* hidden, was found
C6_Rule2At30AnyDivergence ==
    Evaluated =>
        LET L == Locals
            D == Divs
            long2 == Lt(Last(rsi_14), 30)
                     /\ (D.bullish_regular \/ D.bullish_hidden)
            short2 == Gt(Last(rsi_14), 70)
                      /\ (D.bearish_regular \/ D.bearish_hidden)
        IN  /\ l2_long(L) <=> long2
            /\ l2_short(L) <=> short2
            /\ result.long_layer \in {2, 4} => long2
            /\ long2 => result.long_layer >= 2
            /\ result.short_layer \in {2, 4} => short2
            /\ short2 => result.short_layer >= 2

\* layer 2 on the long side from a hidden divergence alone
C6_Witness ==
    /\ Evaluated
    /\ result.long_layer = 2
    /\ Divs.bullish_hidden
    /\ ~Divs.bullish_regular

-----------------------------------------------------------------------------
(* Rule 3: RSI crossing its smoothed series *)

\* C7 as stated, at the bar the code evaluates: Rule 3 long is smoothed RSI < 40,
\* previous RSI <= previous smoothed RSI, current RSI > current smoothed RSI and
\* a bullish divergence; Rule 3 short is the mirror image
C7_Rule3Smoothed40Divergence ==
    Evaluated =>
        LET L == Locals
            D == Divs
            long3 == /\ Lt(Last(smoothed_rsi), 40)
                     /\ Le(Prev(rsi_14), Prev(smoothed_rsi))
                     /\ Gt(Last(rsi_14), Last(smoothed_rsi))
                     /\ (D.bullish_regular \/ D.bullish_hidden)
            short3 == /\ Gt(Last(smoothed_rsi), 60)
                      /\ Ge(Prev(rsi_14), Prev(smoothed_rsi))
                      /\ Lt(Last(rsi_14), Last(smoothed_rsi))
                      /\ (D.bearish_regular \/ D.bearish_hidden)
        IN  /\ l3_long(L) <=> long3
            /\ l3_short(L) <=> short3
            /\ result.long_layer = 3 => long3
            /\ long3 => result.long_layer >= 3
            /\ result.short_layer = 3 => short3
            /\ short3 => result.short_layer >= 3

\* C7 amended: Rule 3 long holds exactly when RSI itself is below 30 at the most
\* recent bar and RSI crossed up through smoothed RSI there (previous RSI
\* strictly below previous smoothed RSI, current RSI above current smoothed
\* RSI); no divergence is required; Rule 3 short is the mirror image with RSI
\* above 70 and a cross down
C7_Rule3Rsi30StrictCross ==
    Evaluated =>
        LET L == Locals
            long3 == /\ Lt(Last(rsi_14), 30)
                     /\ Lt(Prev(rsi_14), Prev(smoothed_rsi))
                     /\ Gt(Last(rsi_14), Last(smoothed_rsi))
            short3 == /\ Gt(Last(rsi_14), 70)
                      /\ Gt(Prev(rsi_14), Prev(smoothed_rsi))
                      /\ Lt(Last(rsi_14), Last(smoothed_rsi))
        IN  /\ l3_long(L) <=> long3
            /\ l3_short(L) <=> short3
            /\ result.long_layer = 3 => long3
            /\ long3 => result.long_layer >= 3
            /\ result.short_layer = 3 => short3
            /\ short3 => result.short_layer >= 3

\* layer 3 on the long side with no bullish divergence at all
C7_Witness ==
    /\ Evaluated
    /\ result.long_layer = 3
    /\ ~Divs.bullish_regular
    /\ ~Divs.bullish_hidden

-----------------------------------------------------------------------------
(* Rules 4 and 5: the combined rules *)

\* ema_13 went from below ema_21 to above it (below it) between the last two bars
FreshCrossUp == Lt(Prev(ema_13), Prev(ema_21)) /\ Gt(Last(ema_13), Last(ema_21))

FreshCrossDown == Gt(Prev(ema_13), Prev(ema_21)) /\ Lt(Last(ema_13), Last(ema_21))

\* C8 as stated: per side Rule 4 is Rule 1 and Rule 2, Rule 5 is Rule 1 and
\* Rule 3, so a side at layer 4 or 5 satisfies the layer-1 condition
C8_CombinedRulesNeedRule1 ==
    Evaluated =>
        LET L == Locals
        IN  /\ l4_long(L) <=> l1_long(L) /\ l2_long(L)
            /\ l5_long(L) <=> l1_long(L) /\ l3_long(L)
            /\ l4_short(L) <=> l1_short(L) /\ l2_short(L)
            /\ l5_short(L) <=> l1_short(L) /\ l3_short(L)
            /\ result.long_layer \in {4, 5} => l1_long(L)
            /\ result.short_layer \in {4, 5} => l1_short(L)

\* C8 amended: per side Rule 4 holds exactly when Rule 2 holds together with
\* Rule 1 or a crossing of ema_13 over ema_21 between the last two bars, and
\* Rule 5 exactly when Rule 2 and Rule 3 both hold together with Rule 1 or such
\* a crossing; a side at layer 4 or 5 satisfies Rule 1 or has that crossing
C8_CombinedRulesNeedEmaCondition ==
    Evaluated =>
        LET L == Locals
        IN  /\ l4_long(L) <=> (l1_long(L) \/ FreshCrossUp) /\ l2_long(L)
            /\ l5_long(L) <=> (l1_long(L) \/ FreshCrossUp) /\ l2_long(L) /\ l3_long(L)
            /\ l4_short(L) <=> (l1_short(L) \/ FreshCrossDown) /\ l2_short(L)
            /\ l5_short(L) <=>
                  (l1_short(L) \/ FreshCrossDown) /\ l2_short(L) /\ l3_short(L)
            /\ result.long_layer \in {4, 5} => l1_long(L) \/ FreshCrossUp
            /\ result.short_layer \in {4, 5} => l1_short(L) \/ FreshCrossDown

\* layer 4 on the long side from a crossing at the last bar, without Rule 1
C8_Witness ==
    /\ Evaluated
    /\ result.long_layer = 4
    /\ ~l1_long(Locals)
    /\ FreshCrossUp

-----------------------------------------------------------------------------
(* Rule 1: EMA crossing and retest *)

\* position in a series of index i of its last EMA_LOOKBACK bars
Recent(i) == Len(prices) - EMA_LOOKBACK + i + 1

CrossedUpAt(i) ==
    /\ Lt(ema_13[Recent(i - 1)], ema_21[Recent(i - 1)])
    /\ Gt(ema_13[Recent(i)], ema_21[Recent(i)])

CrossedDownAt(i) ==
    /\ Gt(ema_13[Recent(i - 1)], ema_21[Recent(i - 1)])
    /\ Lt(ema_13[Recent(i)], ema_21[Recent(i)])

\* the price is within 0.5% of ema_13, for a positive price
NearEma13At(i) ==
    /\ ~IsNaN(ema_13[Recent(i)])
    /\ 200 * Abs(prices[Recent(i)] - ema_13[Recent(i)]) < prices[Recent(i)]

\* the trend and pullback test of the specification at bar b with ATR atr:
\* a spread of at least 0.15 ATR and the price within 0.3 ATR of both averages
AtrRule1Long(b, atr) ==
    /\ Gt(ema_13[b], ema_21[b])
    /\ 100 * Abs(ema_13[b] - ema_21[b]) >= 15 * atr
    /\ 10 * Abs(prices[b] - ema_13[b]) <= 3 * atr
    /\ 10 * Abs(prices[b] - ema_21[b]) <= 3 * atr

AtrRule1Short(b, atr) ==
    /\ Lt(ema_13[b], ema_21[b])
    /\ 100 * Abs(ema_13[b] - ema_21[b]) >= 15 * atr
    /\ 10 * Abs(prices[b] - ema_13[b]) <= 3 * atr
    /\ 10 * Abs(prices[b] - ema_21[b]) <= 3 * atr

\* C9 as stated, for whichever of the last two bars is the evaluation bar and
\* whichever value the ATR has there: Rule 1 long holds exactly when
\* ema13 > ema21 with a spread of at least 0.15 ATR and the price within 0.3 ATR
\* of both averages, Rule 1 short in the mirror case
C9_Rule1AtrPullback ==
    Evaluated =>
        LET long1 == l1_long(Locals)
            short1 == l1_short(Locals)
        IN  \E b \in {Len(prices) - 1, Len(prices)} : \E atr \in 0..100 :
                /\ long1 <=> AtrRule1Long(b, atr)
                /\ short1 <=> AtrRule1Short(b, atr)

\* C9 amended, for positive prices: Rule 1 long holds exactly when, within the
\* last 10 bars, ema_13 went from below ema_21 at one bar to above it at the
\* next and, at that bar or a later one, the price is within 0.5% of ema_13;
\* Rule 1 short is the mirror image; no ATR enters and ema_13 need not be on
\* that side of ema_21 at the last bar
C9_Rule1CrossRetest ==
    Evaluated =>
        LET L == Locals
            long1 == \E i \in 1..(EMA_LOOKBACK - 1) : \E j \in i..(EMA_LOOKBACK - 1) :
                        CrossedUpAt(i) /\ NearEma13At(j)
            short1 == \E i \in 1..(EMA_LOOKBACK - 1) : \E j \in i..(EMA_LOOKBACK - 1) :
                        CrossedDownAt(i) /\ NearEma13At(j)
        IN  /\ l1_long(L) <=> long1
            /\ l1_short(L) <=> short1
            /\ result.long_layer = 1 => long1
            /\ long1 => result.long_layer >= 1
            /\ result.short_layer = 1 => short1
            /\ short1 => result.short_layer >= 1

\* layer 1 on the long side while ema_13 is below ema_21 at the last two bars
C9_Witness ==
    /\ Evaluated
    /\ result.long_layer = 1
    /\ Lt(Last(ema_13), Last(ema_21))
    /\ Lt(Prev(ema_13), Prev(ema_21))

-----------------------------------------------------------------------------
(* The bars detect_signal_layer reads *)

\* how many of its last values detect_signal_layer reads of each series
ReadWindow(name) ==
    CASE name \in {"prices", "rsi_14"} -> DIV_LOOKBACK
      [] name \in {"ema_13", "ema_21"} -> EMA_LOOKBACK
      [] OTHER -> 2

SecondCallReturned == Returned /\ changed # NoChange

\* C4 as stated: the rules are evaluated at index -2, so two calls whose series
\* differ only at the final index return the same result
C4_LastBarIgnored ==
    SecondCallReturned /\ changed.index = -1 => result = first

\* C4 amended: the rules are evaluated at the most recent bar (index -1), with
\* index -2 as the previous bar of the crossing tests; two calls whose series
\* differ only at an index the function does not read (older than the last 2
\* smoothed-RSI values, the last 10 EMA values, the last 30 prices and RSI
\* values) return the same result
C4_UnreadBarsIgnored ==
    SecondCallReturned /\ -changed.index > ReadWindow(changed.series) => result = first

\* smoothed RSI changed at index -3 under a result with a long layer 3 or more
C4_Witness ==
    /\ SecondCallReturned
    /\ changed.series = "smoothed_rsi"
    /\ changed.index = -3
    /\ result.long_layer >= 3
    /\ result = first

-----------------------------------------------------------------------------
(* Warm-up of calculate_rsi *)

\* C10: the result has the length of the input; with at least period+1 prices
\* the entries at indices 0..period-1 are nan and the entry at index `period`
\* is defined; with fewer prices every entry is nan
C10_RsiWarmUp ==
    pc = "rsi_returned" =>
        /\ Len(rsi_out) = Len(prices)
        /\ Len(prices) >= period + 1 =>
              /\ \A i \in 0..(period - 1) : IsNaNValue(At(rsi_out, i))
              /\ ~IsNaNValue(At(rsi_out, period))
        /\ Len(prices) < period + 1 =>
              \A i \in 0..(Len(prices) - 1) : IsNaNValue(At(rsi_out, i))

-----------------------------------------------------------------------------
(* Division by zero in calculate_rsi *)

\* C11: past the warm-up (indices period and later of a series of at least
\* period+1 prices) no entry is nan; an entry whose window has no loss but
\* some gain is 100, and an entry whose window has neither gain nor loss is 50
C11_RsiDivisionByZero ==
    pc = "rsi_returned" /\ Len(prices) >= period + 1 =>
        \A i \in period..(Len(prices) - 1) :
            LET g == gain_sum(prices, i - period + 1, i)
                l == loss_sum(prices, i - period + 1, i)
                v == At(rsi_out, i)
            IN  /\ ~IsNaNValue(v)
                /\ (l = 0 /\ g # 0 => v.num = 100 * v.den)
                /\ (l = 0 /\ g = 0 => v.num = 50 * v.den)

-----------------------------------------------------------------------------
(* Range of the RSI and of the smoothed RSI *)

InRange(v) == IsNaNValue(v) \/ (v.den > 0 /\ 0 <= v.num /\ v.num <= 100 * v.den)

\* C12: every entry of the list calculate_rsi returns and of the list
\* calculate_smoothed_rsi returns is nan or lies between 0 and 100
C12_RsiRange ==
    pc = "smoothed_returned" =>
        /\ \A i \in 1..Len(rsi_out) : InRange(rsi_out[i])
        /\ \A i \in 1..Len(smoothed_out) : InRange(smoothed_out[i])

\* a smoothed value strictly between two RSI values, after a nan inside the
\* RSI series
C12_Witness ==
    /\ pc = "smoothed_returned"
    /\ \E i \in 2..(Len(rsi_out) - 1) :
          /\ ~IsNaNValue(rsi_out[i - 1])
          /\ IsNaNValue(rsi_out[i])
          /\ ~IsNaNValue(rsi_out[i + 1])
          /\ ~Same(smoothed_out[i + 1], rsi_out[i + 1])
          /\ ~Same(smoothed_out[i + 1], smoothed_out[i])

-----------------------------------------------------------------------------
(* calculate_ema *)

\* C13: the list calculate_ema returns has the length of its input, and when
\* the input is shorter than the period every entry is nan (none for the
\* empty input)
C13_EmaLengthAndShortInput ==
    pc = "ema_returned" =>
        /\ Len(ema_out) = Len(prices)
        /\ Len(prices) < period => \A i \in 1..Len(ema_out) : IsNaNValue(ema_out[i])

\* an input that is not empty and shorter than the period
C13_Witness ==
    /\ pc = "ema_returned"
    /\ Len(prices) > 0
    /\ Len(prices) < period
    /\ IsNaNValue(ema_out[Len(ema_out)])

\* (span + 1) * ema[i] = 2 * x[i] + (span - 1) * ema[i - 1]
Recurrence(e, x, i, span) ==
    (span + 1) * At(e, i).num * At(e, i - 1).den =
        2 * At(x, i) * At(e, i).den * At(e, i - 1).den
            + (span - 1) * At(e, i - 1).num * At(e, i).den

\* C14: on an input of at least `period` values the result starts at the
\* first input value and follows ema[i] = a*x[i] + (1-a)*ema[i-1] with
\* a = 2/(period+1); for period 1 it equals the input at every index
C14_EmaRecurrence ==
    pc = "ema_returned" =>
        /\ Len(prices) >= period /\ Len(prices) >= 1 =>
              /\ Same(At(ema_out, 0), Value(At(prices, 0)))
              /\ \A i \in 1..(Len(prices) - 1) :
                    /\ ~IsNaNValue(At(ema_out, i))
                    /\ Recurrence(ema_out, prices, i, period)
        /\ period = 1 =>
              /\ Len(ema_out) = Len(prices)
              /\ \A i \in 1..Len(prices) : ema_out[i] = Value(prices[i])

\* a series of full length that moves, smoothed with period 2
C14_Witness ==
    /\ pc = "ema_returned"
    /\ period = 2
    /\ Len(prices) = MaxRsiLen
    /\ \A i \in 1..(Len(prices) - 1) : prices[i] # prices[i + 1]
    /\ ~Same(Last(ema_out), Value(Last(prices)))

-----------------------------------------------------------------------------
(* calculate_smoothed_rsi against calculate_ema of calculate_rsi *)

SameEntry(x, y) ==
    IF IsNaNValue(x) \/ IsNaNValue(y)
    THEN IsNaNValue(x) /\ IsNaNValue(y)
    ELSE Same(x, y)

\* C15: the list calculate_smoothed_rsi returns has the length of the prices
\* and equals calculate_ema of the calculate_rsi list entry by entry, nan
\* matching nan
C15_SmoothedIsEmaOfRsi ==
    pc = "smoothed_returned" =>
        LET e == calculate_ema(calculate_rsi(prices, rsi_period), smooth_period)
        IN  /\ Len(smoothed_out) = Len(prices)
            /\ Len(e) = Len(prices)
            /\ \A i \in 1..Len(prices) : SameEntry(smoothed_out[i], e[i])

-----------------------------------------------------------------------------
(* Pivots of find_peaks_troughs *)

InList(i, l) == \E k \in 1..Len(l) : l[k] = i

Interior(s, i, k) == k <= i /\ i < Len(s) - k

StrictTrough(s, i, k) ==
    /\ Interior(s, i, k)
    /\ \A j \in 1..k : Lt(At(s, i), At(s, i - j)) /\ Lt(At(s, i), At(s, i + j))

StrictPeak(s, i, k) ==
    /\ Interior(s, i, k)
    /\ \A j \in 1..k : Gt(At(s, i), At(s, i - j)) /\ Gt(At(s, i), At(s, i + j))

\* C16: an index is reported as a trough exactly when its value is strictly
\* less than each of the `order` values before it and after it, and as a peak
\* exactly when it is strictly greater than all of them
C16_StrictPivots ==
    pc = "pivots_returned" =>
        \A i \in 0..(Len(in_series) - 1) :
            /\ InList(i, pivots_out.troughs) <=> StrictTrough(in_series, i, in_order)
            /\ InList(i, pivots_out.peaks) <=> StrictPeak(in_series, i, in_order)

-----------------------------------------------------------------------------
(* detect_divergence on a short series *)

\* C17: on prices shorter than the lookback detect_divergence returns its
\* four flags False
C17_ShortSeriesNoDivergence ==
    pc = "divergence_returned" /\ Len(prices) < in_lookback =>
        divergence = NoDivergence

\* five points under the default lookback
C17_Witness ==
    /\ pc = "divergence_returned"
    /\ Len(prices) = 5
    /\ in_lookback = DIV_LOOKBACK
    /\ divergence = NoDivergence

-----------------------------------------------------------------------------
(* Exceptions of detect_signal_layer and check_ema_cross_retest *)

\* C18: a call of detect_signal_layer, and the call of check_ema_cross_retest
\* inside it, never ends in an exception: the caller always gets a result
C18_NeverRaises == pc # "raised"

-----------------------------------------------------------------------------
(* The cache: time to live *)

LastWrite(limit, timeframe) == written[<<limit, timeframe>>]

\* C19: get_cache returns None for a key never written; for a key written, it
\* returns the data of the last set_cache while the time is before that
\* call's time plus its ttl, and None once the time is after it
C19_GetWithinTtl ==
    got.called =>
        LET w == LastWrite(got.limit, got.timeframe)
        IN  /\ ~w.set => got.value = None
            /\ w.set /\ now < w.at + w.ttl => got.value = w.data
            /\ w.set /\ now > w.at + w.ttl => got.value = None

\* a hit one tick after the write and one tick before the expiry, with a later
\* write on another key in between
C19_Witness ==
    /\ got.called
    /\ LastWrite(got.limit, got.timeframe).set
    /\ LastWrite(got.limit, got.timeframe).at + 1 = now
    /\ LastWrite(got.limit, got.timeframe).ttl = 2
    /\ got.value = LastWrite(got.limit, got.timeframe).data
    /\ \E k \in DOMAIN written : written[k].set /\ written[k].at = now

-----------------------------------------------------------------------------
(* The cache: one entry per (limit, timeframe) *)

Pairs == Limits \X Timeframes

KeyOf == [k \in Pairs |-> _get_cache_key(k[1], k[2])]

RowsOf(rows, k) == {r \in rows : r.key = KeyOf[k]}

OnePerKey ==
    /\ \A k \in Pairs : Cardinality(RowsOf(store, k)) <= 1
    /\ \A k1, k2 \in Pairs : k1 # k2 => KeyOf[k1] # KeyOf[k2]
    /\ \A r \in store : \E k \in Pairs : r.key = KeyOf[k]

\* what the last set_cache on a pair makes get_cache return at the present
\* time: its data until its expiry, None from then on and when there was none
Expected(k) ==
    IF written[k].set /\ now < written[k].at + written[k].ttl
    THEN written[k].data
    ELSE None

\* C20: the table holds at most one row per pair (limit, timeframe) and every
\* row belongs to one pair; the row of a pair carries the expiry of the last
\* set_cache on that pair, and the value get_cache returns for a pair is the
\* one of the last set_cache on that pair, whatever was written on the others
C20_KeyedByPair ==
    /\ OnePerKey
    /\ \A k \in Pairs :
          /\ \A r \in RowsOf(store, k) :
                written[k].set /\ r.expires_at = written[k].at + written[k].ttl
          /\ get_cache(store, k[1], k[2], now) = Expected(k)

\* two set_cache calls on one pair, a tick apart: the table holds one row, of
\* the second call
C20_Witness ==
    /\ sets = 2
    /\ Cardinality({k \in Pairs : written[k].set}) = 1
    /\ \E r \in store : store = {r} /\ r.timestamp = 1 /\ r.expires_at = 2

-----------------------------------------------------------------------------
(* The cache: failing database *)

\* C21: no call of set_cache or get_cache ends in an exception; a get_cache
\* that failed returned None; after a set_cache or get_cache that failed the
\* table holds the rows it held before the call
C21_FailuresAreSilent ==
    /\ pc # "raised"
    /\ got.called /\ got.fail # "none" =>
          /\ got.value = None
          /\ store = got.before

\* a get_cache whose SELECT failed after its DELETE had met an expired row
C21_Witness ==
    /\ got.called
    /\ got.op = "get_cache"
    /\ got.fail = "select"
    /\ \E r \in got.before : r.expires_at < now
    /\ store = got.before

-----------------------------------------------------------------------------
(* The cache: cleanup in get_cache *)

\* C27: after a get_cache that did not fail, whatever its key, the table holds
\* none of the rows it held before with expires_at below the time of the call,
\* all those with expires_at above it, unaltered, and no new row; the value
\* returned is None or the data of a row of
\* the key whose expires_at is above the time of the call
C27_CleanupOnGet ==
    got.called /\ got.op = "get_cache" /\ got.fail = "none" =>
        /\ \A r \in got.before : r.expires_at < now => r \notin store
        /\ \A r \in got.before : r.expires_at > now => r \in store
        /\ store \subseteq got.before
        /\ got.value # None =>
              \E r \in got.before :
                  /\ r.key = _get_cache_key(got.limit, got.timeframe)
                  /\ r.expires_at > now
                  /\ got.value = json_loads(r.data)

\* a get_cache on one key that removed the expired row of the other key and
\* kept and returned its own
C27_Witness ==
    /\ got.called
    /\ got.op = "get_cache"
    /\ got.fail = "none"
    /\ got.value # None
    /\ Cardinality(got.before) = 2
    /\ Cardinality(store) = 1


\* the requests that have their response
Answered == {c \in DOMAIN requests : requests[c].pc = "done"}

\* the row of the request's key holds the payload the request built
StoredUnderKey(req) ==
    \E r \in store : /\ r.key = _get_cache_key(req.limit, req.timeframe)
                     /\ json_loads(r.data) = req.stored

\* C22: a request that finds its (limit, timeframe) in the cache is answered
\* with the cached payload and X-Cache: HIT without any market-data fetch; a
\* request that misses fetches, and the response it builds is stored under its
\* key and returned with X-Cache: MISS; a request identical to an earlier
\* successful one, made before that entry expires, is a HIT with the same
\* payload.
C22_HitOrMiss ==
    \A c \in Answered :
        LET req == requests[c]
        IN  /\ truthy(req.cached_data) =>
                 /\ req.response.x_cache = "HIT"
                 /\ req.response.body = req.cached_data
                 /\ ~req.fetched
            /\ ~truthy(req.cached_data) =>
                 /\ req.fetched
                 /\ req.stored # None =>
                       /\ req.response.x_cache = "MISS"
                       /\ req.response.body = req.stored
                       /\ StoredUnderKey(req)
            /\ req.expected # None =>
                 /\ req.response.x_cache = "HIT"
                 /\ req.response.body = req.expected


\* the keys of a complete response, in the order the handler writes them
CompleteKeys == <<"success", "timeframe", "updated_at", "total_coins", "rsi">>

\* a request answered with a failure response
Failed(req) == req.response.status = 200 /\ req.response.body.items[1] = <<"success", FALSE>>

\* C30: whatever the interleaving of concurrent requests, every entry in the
\* cache is a complete response with success true and with the timeframe of
\* its key, and no failure response returned to a caller is in the cache.
C30_OnlySuccessesCached ==
    /\ \A r \in store :
          LET d == json_loads(r.data)
          IN  /\ [i \in 1..Len(d.items) |-> d.items[i][1]] = CompleteKeys
              /\ d.items[1][2] = TRUE
              /\ \E limit \in FaultLimits : \E timeframe \in Timeframes :
                    /\ r.key = _get_cache_key(limit, timeframe)
                    /\ d.items[2][2] = timeframe
    /\ \A c \in Answered :
          Failed(requests[c]) =>
             \A r \in store : json_loads(r.data) # requests[c].response.body

\* two requests missed on the same key at once; one stored its response, the
\* other failed
C30_Witness ==
    \E c1, c2 \in Answered :
        /\ c1 # c2
        /\ requests[c1].limit = requests[c2].limit
        /\ requests[c1].timeframe = requests[c2].timeframe
        /\ requests[c1].at = now /\ requests[c2].at = now
        /\ requests[c1].fetched /\ requests[c2].fetched
        /\ requests[c1].response.x_cache = "MISS"
        /\ StoredUnderKey(requests[c1])
        /\ Failed(requests[c2])


\* the key of the last POST is empty or whitespace only
Blank == strip(posted.api_key) = ""

\* its validation passed, or failed with rate_limit only
Accepted == posted.validation.valid \/ posted.validation.error = "rate_limit"

\* C23: a POST /api/settings/apikey with a blank key, or with a key whose
\* validation fails otherwise than by rate_limit, is answered 400 with success
\* false and changes neither the key file nor the Gemini service; any other
\* key is saved, the service is re-created and the answer is success true,
\* with the warning rate_limit exactly when validation failed with it.
C23_SetApikey ==
    posted.called =>
       /\ Blank \/ ~Accepted =>
             /\ posted.answer.status_code = 400
             /\ ~posted.answer.success
             /\ key_file = posted.file_before
             /\ gemini_service = posted.service_before
       /\ ~Blank /\ Accepted =>
             /\ key_file = strip(posted.api_key)
             /\ gemini_service = GeminiService(env_key, key_file, posts)
             /\ posted.answer.success
             /\ posted.answer.warning = "rate_limit" <=> ~posted.validation.valid


-----------------------------------------------------------------------------
(* Smoothing inside calculate_rsi *)

\* gain.rolling(window=period).mean() at index i >= period - 1
avg_gain(p, i, n) == Fraction(gain_sum(p, i - n + 1, i), n)

\* loss.rolling(window=period).mean() at index i >= period - 1
avg_loss(p, i, n) == Fraction(loss_sum(p, i - n + 1, i), n)

\* avg[i] = avg[i-1] + (x[i] - avg[i-1]) / period
WilderStep(before, x, after, n) ==
    after = Add(before, Div(Sub(Value(x), before), Value(n)))

\* C24: the averages of gains and of losses that calculate_rsi divides follow
\* Wilder's recurrence avg[i] = avg[i-1] + (x[i] - avg[i-1]) / period at
\* every index where both averages exist.
C24_WilderSmoothing ==
    pc = "rsi_returned" /\ Len(prices) >= period + 1 =>
        \A i \in period..(Len(prices) - 1) :
            /\ WilderStep(avg_gain(prices, i - 1, period), gain(prices, i),
                          avg_gain(prices, i, period), period)
            /\ WilderStep(avg_loss(prices, i - 1, period), loss(prices, i),
                          avg_loss(prices, i, period), period)


-----------------------------------------------------------------------------
(* The crossing check_ema_cross_retest starts from *)

RecentBars == 1..(EMA_LOOKBACK - 1)

\* the last index of the window at which the fast average crossed upward
\* (downward), -1 when there is none
MostRecentUp ==
    IF \E i \in RecentBars : CrossedUpAt(i)
    THEN CHOOSE i \in RecentBars :
            CrossedUpAt(i) /\ \A j \in RecentBars : CrossedUpAt(j) => j <= i
    ELSE -1

MostRecentDown ==
    IF \E i \in RecentBars : CrossedDownAt(i)
    THEN CHOOSE i \in RecentBars :
            CrossedDownAt(i) /\ \A j \in RecentBars : CrossedDownAt(j) => j <= i
    ELSE -1

PositiveWindow ==
    \A i \in 0..(EMA_LOOKBACK - 1) : ~IsNaN(prices[Recent(i)]) /\ prices[Recent(i)] > 0

\* C25: for positive prices, long_setup (short_setup) is set exactly when the
\* window has an upward (downward) crossing and the price is within 0.5% of
\* ema_fast at some bar from the most recent such crossing to the end of the
\* window.
C25_MostRecentCrossing ==
    Evaluated /\ PositiveWindow =>
        LET setups == check_ema_cross_retest(prices, ema_13, ema_21, EMA_LOOKBACK)
        IN  /\ setups.long_setup <=>
                  /\ MostRecentUp # -1
                  /\ \E j \in MostRecentUp..(EMA_LOOKBACK - 1) : NearEma13At(j)
            /\ setups.short_setup <=>
                  /\ MostRecentDown # -1
                  /\ \E j \in MostRecentDown..(EMA_LOOKBACK - 1) : NearEma13At(j)


-----------------------------------------------------------------------------
(* Regular divergences of detect_divergence *)

\* the current pivot of the set P and the nearest earlier one
LastTwo(P, cur, prev) ==
    /\ cur \in P /\ prev \in P /\ prev < cur
    /\ \A t \in P : t <= cur
    /\ \A t \in P : t < cur => t <= prev

\* confirmed pivot lows (highs) of the RSI window: strictly below (above) the
\* PIVOT_ORDER bars on either side
PivotLows(rsi_s) == {i \in 0..(Len(rsi_s) - 1) : StrictTrough(rsi_s, i, PIVOT_ORDER)}

PivotHighs(rsi_s) == {i \in 0..(Len(rsi_s) - 1) : StrictPeak(rsi_s, i, PIVOT_ORDER)}

\* C26: on a series of at least `lookback` points, bullish_regular is reported
\* exactly when the current RSI pivot low has, against the nearest earlier RSI
\* pivot low, a lower price and a higher RSI; bearish_regular exactly when the
\* current RSI pivot high has, against the nearest earlier one, a higher price
\* and a lower RSI.
C26_RegularDivergence ==
    pc = "divergence_returned" /\ Len(prices) >= in_lookback =>
        LET price_s == Window(prices, in_lookback)
            rsi_s == Window(in_rsi_values, in_lookback)
        IN  /\ divergence.bullish_regular <=>
                  \E cur, prev \in PivotLows(rsi_s) :
                      /\ LastTwo(PivotLows(rsi_s), cur, prev)
                      /\ Lt(At(price_s, cur), At(price_s, prev))
                      /\ Gt(At(rsi_s, cur), At(rsi_s, prev))
            /\ divergence.bearish_regular <=>
                  \E cur, prev \in PivotHighs(rsi_s) :
                      /\ LastTwo(PivotHighs(rsi_s), cur, prev)
                      /\ Gt(At(price_s, cur), At(price_s, prev))
                      /\ Lt(At(rsi_s, cur), At(rsi_s, prev))


-----------------------------------------------------------------------------
(* Labels and layers of a result *)

LongLabel(layer) ==
    CASE layer = 0 -> "None"
      [] layer = 1 -> "EMA_LONG (L1)"
      [] layer = 2 -> "POTENTIAL_LONG (L2)"
      [] layer = 3 -> "WEAK_LONG (L3)"
      [] layer = 4 -> "LONG (L4)"
      [] layer = 5 -> "STRONG_LONG (L5)"
      [] OTHER -> "no label"

ShortLabel(layer) ==
    CASE layer = 0 -> "None"
      [] layer = 1 -> "EMA_SHORT (L1)"
      [] layer = 2 -> "POTENTIAL_SHORT (L2)"
      [] layer = 3 -> "WEAK_SHORT (L3)"
      [] layer = 4 -> "SHORT (L4)"
      [] layer = 5 -> "STRONG_SHORT (L5)"
      [] OTHER -> "no label"

\* C28: in every result long_signal is None exactly when long_layer is 0 and
\* is otherwise the label of long_layer; likewise short_signal and short_layer.
C28_SignalMatchesLayer ==
    Returned =>
        /\ result.long_signal = LongLabel(result.long_layer)
        /\ result.short_signal = ShortLabel(result.short_layer)
        /\ result.long_signal = "None" <=> result.long_layer = 0
        /\ result.short_signal = "None" <=> result.short_layer = 0

\* a result with a labelled long side and an empty short side
C28_Witness ==
    /\ Evaluated
    /\ result.long_layer = 4
    /\ result.long_signal = "LONG (L4)"
    /\ result.short_layer = 0
    /\ result.short_signal = "None"

\* C29: no result has both layers at 2 or above; a long layer of 2 or more
\* comes with the RSI of the last bar below the oversold threshold, a short
\* layer of 2 or more with that same RSI above the overbought threshold.
C29_NotBothAboveOne ==
    Returned =>
        /\ ~(result.long_layer >= 2 /\ result.short_layer >= 2)
        /\ result.long_layer >= 2 => Lt(Last(rsi_14), RSI_OVERSOLD)
        /\ result.short_layer >= 2 => Gt(Last(rsi_14), RSI_OVERBOUGHT)

\* both sides signal, the long side by its EMA rule alone
C29_Witness ==
    /\ Evaluated
    /\ result.long_layer = 1
    /\ result.short_layer >= 2

====
